---------------------------- MODULE Spec2Model ----------------------------
(***************************************************************************)
(* A model of PVZ_Extractor.py: the XOR layer, the key search, unpacking a *)
(* PAK archive into a directory with a manifest, and repacking such a      *)
(* directory into a PAK archive.                                           *)
(*                                                                         *)
(* Bytes are the integers 0..255, byte strings are sequences of bytes and  *)
(* a filename is the sequence of its latin-1 code points.  Buffer          *)
(* positions are 0-based as in the source; sequences are 1-based, so the   *)
(* byte at position p of a buffer d is d[p + 1].                           *)
(***************************************************************************)
EXTENDS Integers, Sequences, FiniteSets, TLC

VARIABLES
    pak,        \* the file main.pak: [exists, bytes]
    dirExists,  \* whether the directory main/ exists
    dir,        \* the files of main/ by name
    ops,        \* the runs made so far: a sequence of <<operation, outcome>>
    ex,         \* the locals of the last extract_pak run
    scn,        \* the scenario the initial file system was drawn from
    xd, xk, xr  \* xor_data alone: its data, its key and its successive results

vars == <<pak, dirExists, dir, ops, ex, scn, xd, xk, xr>>

-----------------------------------------------------------------------------
(* Bounds of the model. *)

MaxEntries == 2     \* entries of a table or a manifest
MaxSize == 1        \* recorded size of an entry
MaxRegion == 2      \* bytes of a payload region
MaxRaw == 4         \* bytes of an arbitrary input file
MaxOps == 2         \* runs of the tool in one behaviour
MaxData == 3        \* bytes of data given to xor_data alone
MaxKey == 2         \* bytes of a key given to xor_data alone

-----------------------------------------------------------------------------
(* Sequences and little-endian integers. *)

Min(a, b) == IF a < b THEN a ELSE b

\* d[a:b] of Python for 0 <= a: the bytes at positions a .. b-1, clamped
Slice(d, a, b) ==
    LET hi == Min(b, Len(d))
    IN  IF a >= hi THEN <<>> ELSE [i \in 1..(hi - a) |-> d[a + i]]

RECURSIVE Concat(_)
Concat(ss) == IF ss = <<>> THEN <<>> ELSE Head(ss) \o Concat(Tail(ss))

\* struct.pack('<I', n) and struct.pack('<Q', n): n bytes, least significant first
RECURSIVE PackLE(_, _)
PackLE(value, nbytes) ==
    IF nbytes = 0 THEN <<>>
    ELSE <<value % 256>> \o PackLE(value \div 256, nbytes - 1)

\* the base-256 digits, most significant first, of the little-endian number
\* held in nbytes bytes at position pos
DigitsLE(d, pos, nbytes) == [i \in 1..nbytes |-> d[pos + nbytes + 1 - i]]

RECURSIVE DigitsValue(_)
DigitsValue(digits) ==
    IF digits = <<>> THEN 0
    ELSE 256 * DigitsValue(SubSeq(digits, 1, Len(digits) - 1)) + digits[Len(digits)]

\* struct.unpack_from('<I' or '<Q', d, pos)[0]
UnpackLE(d, pos, nbytes) == DigitsValue(DigitsLE(d, pos, nbytes))

\* 0xbac04ac0 as base-256 digits, most significant first
SIGNATURE == <<186, 192, 74, 192>>

\* struct.unpack('<I', test_data)[0] == 0xbac04ac0
IsSignature(test_data) ==
    \A i \in 1..4 : DigitsLE(test_data, 0, 4)[i] = SIGNATURE[i]

-----------------------------------------------------------------------------
(* xor_data *)

\* bit i of a byte
Bit(a, i) == (a \div (2 ^ i)) % 2

\* a ^ b on one bit
XorBit(p, q) == (p + q) % 2

\* a plausible slip: | in place of ^
OrBit(p, q) == IF p + q > 0 THEN 1 ELSE 0

\* byte ^ key[...] on two bytes, bit by bit
ByteXor(a, b) ==
    XorBit(Bit(a, 0), Bit(b, 0)) + 2 * XorBit(Bit(a, 1), Bit(b, 1))
    + 4 * XorBit(Bit(a, 2), Bit(b, 2)) + 8 * XorBit(Bit(a, 3), Bit(b, 3))
    + 16 * XorBit(Bit(a, 4), Bit(b, 4)) + 32 * XorBit(Bit(a, 5), Bit(b, 5))
    + 64 * XorBit(Bit(a, 6), Bit(b, 6)) + 128 * XorBit(Bit(a, 7), Bit(b, 7))

ByteOr(a, b) ==
    OrBit(Bit(a, 0), Bit(b, 0)) + 2 * OrBit(Bit(a, 1), Bit(b, 1))
    + 4 * OrBit(Bit(a, 2), Bit(b, 2)) + 8 * OrBit(Bit(a, 3), Bit(b, 3))
    + 16 * OrBit(Bit(a, 4), Bit(b, 4)) + 32 * OrBit(Bit(a, 5), Bit(b, 5))
    + 64 * OrBit(Bit(a, 6), Bit(b, 6)) + 128 * OrBit(Bit(a, 7), Bit(b, 7))

xor_data_or(data, key) ==
    IF Len(key) = 0 THEN data
    ELSE [i \in 1..Len(data) |-> ByteOr(data[i], key[((i - 1) % Len(key)) + 1])]

xor_data(data, key) ==
    IF Len(key) = 0 THEN data
    ELSE [i \in 1..Len(data) |-> ByteXor(data[i], key[((i - 1) % Len(key)) + 1])]

-----------------------------------------------------------------------------
(* find_correct_key *)

\* self.passwords, each as [ord(c) for c in password]
passwords == <<
    <<49, 99, 101, 108, 111, 119, 110, 105, 99, 122, 121, 50, 51, 111, 115,
      114, 97, 108, 52, 107, 105, 98, 101, 108>>,
    <<119, 119, 119, 35, 113, 117, 97, 114, 116, 101, 114, 100, 105, 103, 105,
      64, 99, 111, 109>>,
    <<98, 105, 103, 102, 105, 115, 104>>,
    <<>> >>

KnownByte == 247    \* 0xf7

KeyFound(key) == [status |-> "key", key |-> key]
KeyNone == [status |-> "none", key |-> <<>>]
KeyStructError == [status |-> "struct_error", key |-> <<>>]

\* for xor_key in range(first, 0, -1): the loop returns at the first byte, going
\* down from first, that decrypts the first 4 bytes to the signature
ScanFrom(file_data, first) ==
    LET hits == {xor_key \in 1..first :
                    IsSignature(xor_data(Slice(file_data, 0, 4), <<xor_key>>))}
    IN  IF hits = {} THEN KeyNone
        ELSE KeyFound(<<CHOOSE xor_key \in hits : \A other \in hits : other <= xor_key>>)

\* a plausible slip: range(0xfe, 0, -1)
ScanBytesShort(file_data) == ScanFrom(file_data, 254)

\* for xor_key in range(0xff, 0, -1)
ScanBytes(file_data) == ScanFrom(file_data, 255)

\* the two single-byte tiers; struct.unpack raises unless it is given 4 bytes
SingleByteTiers(file_data) ==
    IF Len(Slice(file_data, 0, 4)) # 4 THEN KeyStructError
    ELSE IF IsSignature(xor_data(Slice(file_data, 0, 4), <<KnownByte>>))
         THEN KeyFound(<<KnownByte>>)
         ELSE ScanBytes(file_data)

\* for password in self.passwords
RECURSIVE TryPasswords(_, _)
TryPasswords(file_data, i) ==
    IF i > Len(passwords) THEN SingleByteTiers(file_data)
    ELSE LET key == passwords[i]
             test_data == xor_data(Slice(file_data, 0, 4), key)
         IN  IF Len(test_data) >= 4 /\ IsSignature(test_data)
             THEN KeyFound(key)
             ELSE TryPasswords(file_data, i + 1)

find_correct_key(file_data) == TryPasswords(file_data, 1)

-----------------------------------------------------------------------------
(* Files, and the manifest as json.dump writes it and json.load reads it. *)

\* "manifest", the name of the manifest file in the directory
MANIFEST == <<109, 97, 110, 105, 102, 101, 115, 116>>

NoManifest == [version |-> 0, xor_key |-> <<>>, files |-> <<>>]

RECURSIVE DecimalDigits(_)
DecimalDigits(n) ==
    IF n < 10 THEN <<48 + n>>
    ELSE DecimalDigits(n \div 10) \o <<48 + (n % 10)>>

HexDigit(h) == IF h < 10 THEN 48 + h ELSE 87 + h

\* one character of a JSON string, ensure_ascii=False, in a UTF-8 file
JsonChar(c) ==
    IF c = 34 THEN <<92, 34>>
    ELSE IF c = 92 THEN <<92, 92>>
    ELSE IF c = 10 THEN <<92, 110>>
    ELSE IF c = 13 THEN <<92, 114>>
    ELSE IF c = 9 THEN <<92, 116>>
    ELSE IF c = 8 THEN <<92, 98>>
    ELSE IF c = 12 THEN <<92, 102>>
    ELSE IF c < 32 THEN <<92, 117, 48, 48, HexDigit(c \div 16), HexDigit(c % 16)>>
    ELSE IF c < 128 THEN <<c>>
    ELSE <<192 + (c \div 64), 128 + (c % 64)>>

JsonString(str) == <<34>> \o Concat([i \in 1..Len(str) |-> JsonChar(str[i])]) \o <<34>>

\* items joined by ','
RECURSIVE JoinComma(_)
JoinComma(items) ==
    IF items = <<>> THEN <<>>
    ELSE IF Len(items) = 1 THEN items[1]
    ELSE items[1] \o <<44>> \o JoinComma(Tail(items))

JsonIntList(ints) ==
    <<91>> \o JoinComma([i \in 1..Len(ints) |-> DecimalDigits(ints[i])]) \o <<93>>

\* a file_info list: ["name",size,timestamp] or ["name",size,timestamp,flags]
JsonFileInfo(file_info) ==
    <<91>> \o JoinComma(<<JsonString(file_info[1])>>
                        \o [i \in 1..(Len(file_info) - 1) |->
                               DecimalDigits(file_info[i + 1])])
           \o <<93>>

\* json.dump(manifest, f, separators=(',', ':'), ensure_ascii=False):
\* {"version":1,"xor_key":[...],"files":[...]}
JsonDump(manifest) ==
    <<123, 34, 118, 101, 114, 115, 105, 111, 110, 34, 58>>
    \o DecimalDigits(manifest.version)
    \o <<44, 34, 120, 111, 114, 95, 107, 101, 121, 34, 58>>
    \o JsonIntList(manifest.xor_key)
    \o <<44, 34, 102, 105, 108, 101, 115, 34, 58, 91>>
    \o JoinComma([i \in 1..Len(manifest.files) |-> JsonFileInfo(manifest.files[i])])
    \o <<93, 125>>

\* a file written with open(path, 'wb')
BinFile(bytes) == [kind |-> "bin", bytes |-> bytes, manifest |-> NoManifest]

\* the manifest file: its bytes, and the object json.load makes of them
JsonFile(manifest) ==
    [kind |-> "json", bytes |-> JsonDump(manifest), manifest |-> manifest]

NoFile == [exists |-> FALSE, bytes |-> <<>>]
PakFile(bytes) == [exists |-> TRUE, bytes |-> bytes]

EmptyDir == [n \in {} |-> BinFile(<<>>)]

\* with open(output_path, 'wb') as f: f.write(...)
WriteFile(files, name, file) ==
    [n \in (DOMAIN files) \cup {name} |-> IF n = name THEN file ELSE files[n]]

-----------------------------------------------------------------------------
(* extract_pak *)

\* self.use_compression
use_compression == FALSE

\* a plausible slip: flags == 0x80 in place of flags & 0x80
HasEndFlagEq(flags) == flags = 128

\* flags & 0x80
HasEndFlag(flags) == (flags \div 128) % 2 = 1

Entry(filename, size, timestamp, flags) ==
    [filename |-> filename, size |-> size, timestamp |-> timestamp, flags |-> flags]

Parsed(status, at, file_entries, current_pos) ==
    [status |-> status, at |-> at, file_entries |-> file_entries,
     current_pos |-> current_pos]

\* a plausible slip: a record that does not fit the buffer ends the table
\* quietly, as the exhausted buffer does
RECURSIVE ParseTableLenient(_, _, _)
ParseTableLenient(d, current_pos, file_entries) ==
    IF current_pos >= Len(d) THEN Parsed("ok", "end", file_entries, current_pos)
    ELSE
    LET flags == d[current_pos + 1]
        name_pos == current_pos + 2
    IN
    IF HasEndFlag(flags) THEN Parsed("ok", "marker", file_entries, current_pos + 1)
    ELSE IF current_pos + 1 >= Len(d)
    THEN Parsed("ok", "end", file_entries, current_pos + 1)
    ELSE
    LET name_size == d[current_pos + 2]
        filename == Slice(d, name_pos, name_pos + name_size)
        size_pos == name_pos + name_size
    IN
    IF size_pos + 12 > Len(d)
    THEN Parsed("ok", "end", file_entries, Len(d))
    ELSE ParseTableLenient(d, size_pos + 12,
                           Append(file_entries,
                                  Entry(filename, UnpackLE(d, size_pos, 4),
                                        UnpackLE(d, size_pos + 4, 8), flags)))

\* the while True loop over the entry table; a read past the end of the
\* buffer raises IndexError (indexing) or struct.error (unpack_from)
RECURSIVE ParseTable(_, _, _)
ParseTable(d, current_pos, file_entries) ==
    IF current_pos >= Len(d) THEN Parsed("ok", "end", file_entries, current_pos)
    ELSE
    LET flags == d[current_pos + 1]
        name_pos == current_pos + 2
    IN
    IF HasEndFlag(flags) THEN Parsed("ok", "marker", file_entries, current_pos + 1)
    ELSE IF current_pos + 1 >= Len(d)
    THEN Parsed("index_error", "name_size", file_entries, current_pos + 1)
    ELSE
    LET name_size == d[current_pos + 2]
        filename == Slice(d, name_pos, name_pos + name_size)
        size_pos == name_pos + name_size
        csize_len == IF use_compression THEN 4 ELSE 0
        time_pos == size_pos + 4 + csize_len
    IN
    IF size_pos + 4 > Len(d)
    THEN Parsed("struct_error", "size", file_entries, size_pos)
    ELSE IF use_compression /\ size_pos + 8 > Len(d)
    THEN Parsed("struct_error", "compressed_size", file_entries, size_pos + 4)
    ELSE IF time_pos + 8 > Len(d)
    THEN Parsed("struct_error", "timestamp", file_entries, time_pos)
    ELSE ParseTable(d, time_pos + 8,
                    Append(file_entries,
                           Entry(filename, UnpackLE(d, size_pos, 4),
                                 UnpackLE(d, time_pos, 8), flags)))

\* for entry in file_entries: write decrypted_data[pos:pos + size] under its name
RECURSIVE UnpackFiles(_, _, _, _, _)
UnpackFiles(d, file_entries, i, current_data_pos, files) ==
    IF i > Len(file_entries) THEN files
    ELSE LET entry == file_entries[i]
             file_data == Slice(d, current_data_pos, current_data_pos + entry.size)
         IN  UnpackFiles(d, file_entries, i + 1, current_data_pos + entry.size,
                         WriteFile(files, entry.filename, BinFile(file_data)))

\* entry['offset'] of entry i: the running sum of the sizes before it
RECURSIVE EntryOffset(_, _, _)
EntryOffset(file_entries, i, data_offset) ==
    IF i <= 1 THEN data_offset
    ELSE EntryOffset(file_entries, i - 1, data_offset) + file_entries[i - 1].size

\* [filename, size, timestamp], with flags appended only if non-zero
FileInfo(entry) ==
    IF entry.flags # 0
    THEN <<entry.filename, entry.size, entry.timestamp, entry.flags>>
    ELSE <<entry.filename, entry.size, entry.timestamp>>

MakeManifest(xor_key, file_entries) ==
    [version |-> 1, xor_key |-> xor_key,
     files |-> [i \in 1..Len(file_entries) |-> FileInfo(file_entries[i])]]

NoExtract ==
    [outcome |-> "none", at |-> "none", file_data |-> <<>>, xor_key |-> <<>>,
     decrypted |-> <<>>, version |-> 0, file_entries |-> <<>>, data_offset |-> 0]

\* the result of extract_pak: dirExists and files afterwards, and its locals
Extracted(outcome, at, exists, files, file_data, xor_key, decrypted, version, file_entries, data_offset) ==
    [dirExists |-> exists, files |-> files,
     ex |-> [outcome |-> outcome, at |-> at, file_data |-> file_data,
             xor_key |-> xor_key, decrypted |-> decrypted, version |-> version,
             file_entries |-> file_entries, data_offset |-> data_offset]]

\* for entry in file_entries: ... ; then the manifest is written
UnpackAll(files, file_data, xor_key, decrypted_data, version, table) ==
    IF table.status # "ok"
    THEN Extracted(table.status, table.at, TRUE, files, file_data, xor_key,
                   decrypted_data, version, table.file_entries, table.current_pos)
    ELSE Extracted("ok", table.at, TRUE,
                   WriteFile(UnpackFiles(decrypted_data, table.file_entries, 1,
                                         table.current_pos, files),
                             MANIFEST,
                             JsonFile(MakeManifest(xor_key, table.file_entries))),
                   file_data, xor_key, decrypted_data, version, table.file_entries,
                   table.current_pos)

\* the signature, the version, then the entry table
ParseHeader(files, file_data, xor_key, decrypted_data) ==
    IF Len(decrypted_data) < 4
    THEN Extracted("struct_error", "signature", TRUE, files, file_data, xor_key,
                   decrypted_data, 0, <<>>, 0)
    ELSE IF ~IsSignature(decrypted_data)
    THEN Extracted("invalid_signature", "signature", TRUE, files, file_data,
                   xor_key, decrypted_data, 0, <<>>, 0)
    ELSE IF Len(decrypted_data) < 8
    THEN Extracted("struct_error", "version", TRUE, files, file_data, xor_key,
                   decrypted_data, 0, <<>>, 4)
    ELSE UnpackAll(files, file_data, xor_key, decrypted_data,
                   UnpackLE(decrypted_data, 4, 4),
                   ParseTable(decrypted_data, 8, <<>>))

\* xor_key is None, or the whole file is decrypted with it
Decrypt(file_data, files, found) ==
    IF found.status = "struct_error"
    THEN Extracted("struct_error", "find_correct_key", TRUE, files, file_data,
                   <<>>, <<>>, 0, <<>>, 0)
    ELSE IF found.status = "none"
    THEN Extracted("key_not_found", "find_correct_key", TRUE, files, file_data,
                   <<>>, <<>>, 0, <<>>, 0)
    ELSE ParseHeader(files, file_data, found.key, xor_data(file_data, found.key))

extract_pak(pakfile, exists, files) ==
    IF ~pakfile.exists
    THEN Extracted("file_not_found", "open", exists, files, <<>>, <<>>, <<>>, 0,
                   <<>>, 0)
    ELSE Decrypt(pakfile.bytes, files, find_correct_key(pakfile.bytes))

-----------------------------------------------------------------------------
(* repack_pak *)

\* struct.pack('<I', 0xbac04ac0)
SignatureBytes == [i \in 1..4 |-> SIGNATURE[5 - i]]

\* flags |= 0x80
SetEndFlag(flags) == IF HasEndFlag(flags) THEN flags ELSE flags + 128

\* flags = file_info[3] if len(file_info) > 3 else 0
InfoFlags(file_info) == IF Len(file_info) > 3 THEN file_info[4] ELSE 0

\* the record appended to header_data for entry i of the manifest
HeaderRecord(file_entries, i) ==
    LET file_info == file_entries[i]
        filename == file_info[1]
        flags == IF i = Len(file_entries)
                 THEN SetEndFlag(InfoFlags(file_info))
                 ELSE InfoFlags(file_info)
    IN  <<flags, Len(filename)>> \o filename
        \o PackLE(file_info[2], 4) \o PackLE(file_info[3], 8)

\* signature, version 0, then one record per manifest entry
HeaderData(file_entries) ==
    SignatureBytes \o PackLE(0, 4)
    \o Concat([i \in 1..Len(file_entries) |-> HeaderRecord(file_entries, i)])

\* the position of the first manifest entry whose file does not exist, or 0
RECURSIVE FirstMissing(_, _, _)
FirstMissing(file_entries, i, files) ==
    IF i > Len(file_entries) THEN 0
    ELSE IF file_entries[i][1] \notin DOMAIN files THEN i
    ELSE FirstMissing(file_entries, i + 1, files)

\* file_data: what is read from each entry's file, in manifest order
FileData(file_entries, files) ==
    Concat([i \in 1..Len(file_entries) |-> files[file_entries[i][1]].bytes])

Repacked(outcome, pakfile) == [outcome |-> outcome, pak |-> pakfile]

\* a plausible slip: the output file is opened for writing before the payload
\* files are read, so a missing payload leaves it created and empty
repack_pak_early(exists, files, pakfile) ==
    IF ~exists THEN Repacked("dir_not_found", pakfile)
    ELSE IF MANIFEST \notin DOMAIN files THEN Repacked("manifest_not_found", pakfile)
    ELSE IF files[MANIFEST].kind # "json" THEN Repacked("json_error", pakfile)
    ELSE IF FirstMissing(files[MANIFEST].manifest.files, 1, files) # 0
    THEN Repacked("payload_not_found", PakFile(<<>>))
    ELSE Repacked("ok",
                  PakFile(xor_data(HeaderData(files[MANIFEST].manifest.files)
                                   \o FileData(files[MANIFEST].manifest.files, files),
                                   files[MANIFEST].manifest.xor_key)))

repack_pak(exists, files, pakfile) ==
    IF ~exists THEN Repacked("dir_not_found", pakfile)
    ELSE IF MANIFEST \notin DOMAIN files THEN Repacked("manifest_not_found", pakfile)
    ELSE IF files[MANIFEST].kind # "json" THEN Repacked("json_error", pakfile)
    ELSE
    LET manifest == files[MANIFEST].manifest
        file_entries == manifest.files
        header_data == HeaderData(file_entries)
    IN
    IF FirstMissing(file_entries, 1, files) # 0
    THEN Repacked("payload_not_found", pakfile)
    ELSE
    LET pak_data == header_data \o FileData(file_entries, files)
    IN  Repacked("ok", PakFile(xor_data(pak_data, manifest.xor_key)))

-----------------------------------------------------------------------------
(* The inputs: the initial file systems the model starts from. *)

SeqsUpTo(S, n) == UNION {[1..k -> S] : k \in 0..n}

NameA == <<97>>
NameB == <<200>>
Names == {NameA, NameB, MANIFEST}

\* one entry per name and size; NameB (a latin-1 letter above 0x7f) carries
\* non-zero flags, NameA a two-byte timestamp
EntryOf(name, size) ==
    Entry(name, size,
          IF name = NameA THEN 258 ELSE IF name = NameB THEN 0 ELSE 1,
          IF name = NameB THEN 1 ELSE 0)

\* NameA with every size, NameB with one byte
EntryChoices == {EntryOf(NameA, size) : size \in 0..MaxSize} \cup {EntryOf(NameB, 1)}

\* tables with an entry that is named like the manifest file
ManifestTables ==
    {<<EntryOf(MANIFEST, 1)>>,
     <<EntryOf(NameA, 1), EntryOf(MANIFEST, 1)>>,
     <<EntryOf(MANIFEST, 1), EntryOf(NameA, 1)>>}

Tables == SeqsUpTo(EntryChoices, MaxEntries) \cup ManifestTables

\* n bytes, each telling its position: first, first + 1, ...
Pattern(first, n) == [i \in 1..n |-> first + i - 1]

\* the layout of an archive before encryption: signature, version, one record
\* per entry, the end marker, the payload region
EntryRecord(e) ==
    <<e.flags, Len(e.filename)>> \o e.filename
    \o PackLE(e.size, 4) \o PackLE(e.timestamp, 8)

TableBytes(entries) == Concat([i \in 1..Len(entries) |-> EntryRecord(entries[i])])

Archive(version, entries, marker, region) ==
    SignatureBytes \o PackLE(version, 4) \o TableBytes(entries)
    \o <<marker>> \o region

\* every key find_correct_key can return
SingleByteKeys == {<<k>> : k \in 1..255}
PasswordKeys == {passwords[i] : i \in 1..Len(passwords)}
AllKeys == PasswordKeys \cup SingleByteKeys

RawBytes == {192, 74, 186}

Scenario(family, key, version, entries, marker, region, cut, defect, at) ==
    [family |-> family, key |-> key, version |-> version, entries |-> entries,
     marker |-> marker, region |-> region, cut |-> cut, defect |-> defect,
     at |-> at]

\* the plaintext of a scenario's archive, and the file it is stored as
Plain(s) == Archive(s.version, s.entries, s.marker, s.region)
Stored(s) == xor_data(Slice(Plain(s), 0, s.cut), s.key)

FullLen(version, entries, marker, region) ==
    Len(Archive(version, entries, marker, region))

\* whole archives under the key 0xf7: every table, every length of region
TableScenarios ==
    {Scenario("archive", <<KnownByte>>, 0, t, 128, Pattern(65, n),
              FullLen(0, t, 128, Pattern(65, n)), "none", 0) :
        t \in Tables, n \in 0..MaxRegion}

OneEntry == <<EntryOf(NameA, 1)>>
TwoEntries == <<EntryOf(NameA, 1), EntryOf(NameB, 1)>>

\* one archive under every key
KeyScenarios ==
    {Scenario("archive", k, 0, OneEntry, 128, Pattern(65, 1),
              FullLen(0, OneEntry, 128, Pattern(65, 1)), "none", 0) :
        k \in AllKeys}

\* an archive, whole and cut short at every length, with version 0 and 1
CutScenarios ==
    {Scenario("cut", k, v, TwoEntries, m, Pattern(65, 2), c, "none", 0) :
        k \in {<<>>, <<KnownByte>>}, v \in {0, 1}, m \in {128, 255},
        c \in 0..FullLen(0, TwoEntries, 128, Pattern(65, 2))}

\* a directory with a manifest and its payload files: all as recorded, or
\* one entry's file removed, or one entry's file longer than its recorded size
DirDefects(t) ==
    {<<"none", 0>>} \cup {<<d, i>> : d \in {"missing", "longer"}, i \in 1..Len(t)}

DirScenarios ==
    UNION {{Scenario("dir", <<KnownByte>>, 0, t, 128, <<>>, 0, d[1], d[2]) :
               d \in DirDefects(t)} : t \in Tables}

\* the payload file a directory scenario holds for an entry
PayloadOf(e) == Pattern(e.filename[1], e.size)

RECURSIVE PayloadFiles(_, _, _)
PayloadFiles(entries, i, files) ==
    IF i > Len(entries) THEN files
    ELSE LET e == entries[i]
         IN  PayloadFiles(entries, i + 1,
                          IF e.filename = MANIFEST THEN files
                          ELSE WriteFile(files, e.filename, BinFile(PayloadOf(e))))

RemoveFile(files, name) == [n \in (DOMAIN files) \ {name} |-> files[n]]

InitialDir(s) ==
    LET whole == PayloadFiles(s.entries, 1,
                              WriteFile(EmptyDir, MANIFEST,
                                        JsonFile(MakeManifest(s.key, s.entries))))
        e == s.entries[s.at]
    IN  IF s.defect = "none" \/ e.filename = MANIFEST THEN whole
        ELSE IF s.defect = "missing" THEN RemoveFile(whole, e.filename)
        ELSE WriteFile(whole, e.filename,
                       BinFile(Pattern(e.filename[1], e.size + 1)))

NoScenario == Scenario("none", <<>>, 0, <<>>, 0, <<>>, 0, "none", 0)

-----------------------------------------------------------------------------
(* The tool run on main.pak and main/, with its default paths: extract_pak  *)
(* unpacks main.pak into main/, repack_pak packs main/ into main.pak.       *)

XorIdle == xd = <<>> /\ xk = <<>> /\ xr = <<>>

InitArchive ==
    \E s \in TableScenarios \cup KeyScenarios \cup CutScenarios :
        /\ scn = s
        /\ pak = PakFile(Stored(s))
        /\ dirExists = FALSE
        /\ dir = EmptyDir

InitRaw ==
    \E raw \in SeqsUpTo(RawBytes, MaxRaw) :
        /\ scn = Scenario("raw", <<>>, 0, <<>>, 0, raw, Len(raw), "none", 0)
        /\ pak = PakFile(raw)
        /\ dirExists = FALSE
        /\ dir = EmptyDir

InitDir ==
    \E s \in DirScenarios :
        /\ scn = s
        /\ pak = NoFile
        /\ dirExists = TRUE
        /\ dir = InitialDir(s)

Init ==
    /\ InitArchive \/ InitRaw \/ InitDir
    /\ ops = <<>>
    /\ ex = NoExtract
    /\ XorIdle

ExtractPak ==
    /\ Len(ops) < MaxOps
    /\ \E r \in {extract_pak(pak, dirExists, dir)} :
           /\ dirExists' = r.dirExists
           /\ dir' = r.files
           /\ ex' = r.ex
           /\ ops' = Append(ops, <<"extract", r.ex.outcome>>)
    /\ UNCHANGED <<pak, scn, xd, xk, xr>>

RepackPak ==
    /\ Len(ops) < MaxOps
    /\ \E r \in {repack_pak(dirExists, dir, pak)} :
           /\ pak' = r.pak
           /\ ops' = Append(ops, <<"repack", r.outcome>>)
    /\ UNCHANGED <<dirExists, dir, ex, scn, xd, xk, xr>>

Next == ExtractPak \/ RepackPak

Spec == Init /\ [][Next]_vars

-----------------------------------------------------------------------------
(* xor_data on its own: applied to a byte string, then to its own result. *)

XorBytes == {0, 90, 255}
XorKeyBytes == {15, 128, 247}

InitXor ==
    /\ xd \in SeqsUpTo(XorBytes, MaxData)
    /\ xk \in SeqsUpTo(XorKeyBytes, MaxKey)
    /\ xr = <<>>
    /\ pak = NoFile
    /\ dirExists = FALSE
    /\ dir = EmptyDir
    /\ ops = <<>>
    /\ ex = NoExtract
    /\ scn = NoScenario

XorApply ==
    /\ Len(xr) < 2
    /\ xr' = Append(xr, xor_data(IF xr = <<>> THEN xd ELSE xr[Len(xr)], xk))
    /\ UNCHANGED <<xd, xk, pak, dirExists, dir, ops, ex, scn>>

NextXor == XorApply

SpecXor == InitXor /\ [][NextXor]_vars

-----------------------------------------------------------------------------
(* What the claims are stated with. *)

Ran == Len(ops) > 0
LastOp == ops[Len(ops)]

\* the last extract_pak read the archive the scenario holds
ReadScenarioArchive ==
    /\ scn.family \in {"archive", "cut"}
    /\ ex.outcome \notin {"none", "file_not_found"}
    /\ ex.file_data = Stored(scn)

\* position of the flags byte of record i of the scenario's table; record
\* Len(entries) + 1 is the end marker
RecordStart(s, i) == 8 + Len(TableBytes(SubSeq(s.entries, 1, i - 1)))
MarkerPos(s) == RecordStart(s, Len(s.entries) + 1)

\* the archive is whole up to and including its end marker
HasMarker(s) == s.cut > MarkerPos(s)

\* the cut falls inside the version, or inside a record after its flags byte
CutInVersion(s) == s.cut \in 4..7
CutInRecord(s, i) == RecordStart(s, i) < s.cut /\ s.cut < RecordStart(s, i + 1)
Truncated(s) == CutInVersion(s) \/ \E i \in 1..Len(s.entries) : CutInRecord(s, i)

\* the records that lie whole before the cut
WholeRecords(s) ==
    Cardinality({i \in 1..Len(s.entries) : RecordStart(s, i + 1) <= s.cut})

\* the payload of entry i of the scenario's archive, by the layout
ArchivePayload(s, i) ==
    LET off == EntryOffset(s.entries, i, MarkerPos(s) + 1)
    IN  Slice(Slice(Plain(s), 0, s.cut), off, off + s.entries[i].size)

\* the payload the last extract_pak wrote for entry i
ExtractedPayload(i) ==
    LET off == EntryOffset(ex.file_entries, i, ex.data_offset)
    IN  Slice(ex.decrypted, off, off + ex.file_entries[i].size)

\* the candidates of find_correct_key in the order it tries them
Candidates == passwords \o <<<<KnownByte>>>> \o [i \in 1..255 |-> <<256 - i>>]

\* candidate key decrypts the first 4 bytes of file_data to the signature
Opens(file_data, key) ==
    /\ Len(file_data) >= 4
    /\ IsSignature(xor_data(Slice(file_data, 0, 4), key))

\* c is a XOR b, bit by bit
IsXorOf(c, a, b) ==
    \A i \in 0..7 : Bit(c, i) = (IF Bit(a, i) = Bit(b, i) THEN 0 ELSE 1)

\* the directory holds a manifest, and the files its entries name
ManifestIn(files) == MANIFEST \in DOMAIN files /\ files[MANIFEST].kind = "json"
ManifestFiles(files) == files[MANIFEST].manifest.files

\* the payload files of a directory scenario all have their recorded sizes
ConsistentDir(s) ==
    LET files == InitialDir(s)
    IN  \A i \in 1..Len(s.entries) :
            /\ s.entries[i].filename \in DOMAIN files
            /\ Len(files[s.entries[i].filename].bytes) = s.entries[i].size

\* the flags bytes of the scenario's archive: of each record, and the marker
FlagPositions(s) == {RecordStart(s, i) : i \in 1..(Len(s.entries) + 1)}

-----------------------------------------------------------------------------
(* The claims. *)

\* C1: repack_pak followed by extract_pak gives back the manifest (its key and
\* its ordered entries, the last one included) and every entry's payload,
\* for every manifest whose payload files have the recorded sizes.
C1_RepackThenUnpack ==
    /\ scn.family = "dir"
    /\ ConsistentDir(scn)
    /\ Len(ops) = 2
    /\ ops[1] = <<"repack", "ok">>
    /\ ops[2][1] = "extract"
    => /\ ops[2][2] = "ok"
       /\ ex.xor_key = scn.key
       /\ ex.file_entries = scn.entries
       /\ \A i \in 1..Len(scn.entries) : ExtractedPayload(i) = PayloadOf(scn.entries[i])

\* C2: extract_pak of a well-formed archive followed by repack_pak gives an
\* archive of the same length that differs from it at most in the high bit
\* of a flags byte.
C2_UnpackThenRepack ==
    /\ scn.family \in {"archive", "cut"}
    /\ scn.cut = Len(Plain(scn))
    /\ Len(ops) = 2
    /\ ops[1] = <<"extract", "ok">>
    /\ ops[2][1] = "repack"
    => /\ ops[2][2] = "ok"
       /\ Len(pak.bytes) = Len(Stored(scn))
       /\ \A p \in 1..Len(pak.bytes) :
              \/ pak.bytes[p] = Stored(scn)[p]
              \/ /\ (p - 1) \in FlagPositions(scn)
                 /\ pak.bytes[p] % 128 = Stored(scn)[p] % 128

\* C3: find_correct_key returns the key the archive was encrypted with, for
\* each password, 0xf7 and every other single byte 1..255; the key returned
\* is the first candidate, in the order passwords, 0xf7, 255 down to 1, that
\* decrypts the first 4 bytes to the signature.
C3_KeyRecovered ==
    /\ (ReadScenarioArchive /\ scn.cut >= 4 /\ scn.key \in AllKeys
        => /\ ex.at # "find_correct_key"
           /\ ex.xor_key = scn.key)
    /\ (ex.outcome \notin {"none", "file_not_found"} /\ ex.at # "find_correct_key"
        => \E j \in 1..Len(Candidates) :
               /\ Candidates[j] = ex.xor_key
               /\ Opens(ex.file_data, Candidates[j])
               /\ \A h \in 1..(j - 1) : ~Opens(ex.file_data, Candidates[h]))

C3_Witness ==
    /\ ReadScenarioArchive
    /\ scn.key = <<255>>
    /\ ex.outcome = "ok"
    /\ ex.xor_key = <<255>>

\* C4: repack_pak fails, and writes no archive, when the file of a manifest
\* entry has a length other than the size the manifest records for it.
C4_SizeMismatchRejected ==
    /\ Ran
    /\ LastOp[1] = "repack"
    /\ dirExists
    /\ ManifestIn(dir)
    /\ \E i \in 1..Len(ManifestFiles(dir)) :
           /\ ManifestFiles(dir)[i][1] # MANIFEST
           /\ ManifestFiles(dir)[i][1] \in DOMAIN dir
           /\ Len(dir[ManifestFiles(dir)[i][1]].bytes) # ManifestFiles(dir)[i][2]
    => LastOp[2] # "ok"

\* C5: extract_pak ends in key-not-found for every input, of any length,
\* whose first 4 bytes no candidate key decrypts to the signature.
C5_KeyNotFound ==
    /\ ex.outcome \notin {"none", "file_not_found"}
    /\ \A j \in 1..Len(Candidates) : ~Opens(ex.file_data, Candidates[j])
    => ex.outcome = "key_not_found"

\* C6: when the version or a field of a record (name length, filename, size,
\* timestamp) runs past the end of the buffer, extract_pak fails with the
\* error of a read past the end (struct.error or IndexError), and the entry
\* list holds only the records that were read whole.
C6_TruncatedFails ==
    ReadScenarioArchive /\ Truncated(scn)
    => /\ ex.outcome \in {"struct_error", "index_error"}
       /\ ex.at \in {"version", "name_size", "size", "timestamp"}
       /\ ex.file_entries = SubSeq(scn.entries, 1, WholeRecords(scn))
       /\ dir = EmptyDir

C6_Witness ==
    /\ ReadScenarioArchive
    /\ Len(scn.entries) = 2
    /\ CutInRecord(scn, 2)
    /\ scn.cut = RecordStart(scn, 2) + 3
    /\ ex.outcome = "struct_error"
    /\ Len(ex.file_entries) = 1

\* C7: the table parse stops at the first record position whose flags byte
\* has the high bit set; the marker adds no entry, every entry has the high
\* bit clear, and the payload region starts right after the marker byte.
C7_EndMarker ==
    /\ \A i \in 1..Len(ex.file_entries) : ~HasEndFlag(ex.file_entries[i].flags)
    /\ (ReadScenarioArchive /\ HasMarker(scn)
        => /\ ex.outcome = "ok"
           /\ ex.file_entries = scn.entries
           /\ ex.data_offset = MarkerPos(scn) + 1
           /\ ex.decrypted[ex.data_offset] = scn.marker)
    /\ (ex.outcome = "ok"
        => \/ ex.data_offset = Len(ex.decrypted)
           \/ HasEndFlag(ex.decrypted[ex.data_offset]))

C7_Witness ==
    /\ ReadScenarioArchive
    /\ HasMarker(scn)
    /\ scn.marker = 255
    /\ Len(scn.entries) = 2
    /\ ex.outcome = "ok"
    /\ Len(ex.file_entries) = 2

\* C8: xor_data returns as many bytes as it is given, byte i being
\* data[i] XOR key[i mod len(key)], and with a non-empty key applying it
\* twice gives the data back.
C8_XorInvolution ==
    /\ Len(xr) >= 1 =>
           /\ Len(xr[1]) = Len(xd)
           /\ xk # <<>> =>
                  \A i \in 1..Len(xd) :
                      IsXorOf(xr[1][i], xd[i], xk[((i - 1) % Len(xk)) + 1])
    /\ Len(xr) = 2 /\ xk # <<>> => xr[2] = xd

C8_Witness ==
    /\ Len(xr) = 2
    /\ Len(xk) = 2
    /\ Len(xd) = 3
    /\ xk[1] # xk[2]
    /\ xr[1] # xd
    /\ xr[2] = xd

\* C9: when the file of any manifest entry is absent, repack_pak ends in the
\* missing-payload failure and leaves the output PAK file as it was, neither
\* created nor modified.
C9_MissingPayloadNoOutput ==
    [][ /\ ops' # ops
        /\ ops'[Len(ops')][1] = "repack"
        /\ dirExists
        /\ ManifestIn(dir)
        /\ \E i \in 1..Len(ManifestFiles(dir)) :
               ManifestFiles(dir)[i][1] \notin DOMAIN dir
        => /\ ops'[Len(ops')][2] = "payload_not_found"
           /\ pak' = pak ]_vars

C9_Witness ==
    /\ scn.family = "dir"
    /\ scn.defect = "missing"
    /\ scn.at = 2
    /\ ops = << <<"repack", "payload_not_found">> >>
    /\ ~pak.exists

\* C10: after a successful extract_pak into an empty directory, the file
\* under each entry's filename holds that entry's payload, as long as its
\* recorded size.
C10_FilesHoldPayloads ==
    /\ ReadScenarioArchive
    /\ HasMarker(scn)
    /\ ops = << <<"extract", "ok">> >>
    => \A i \in 1..Len(scn.entries) :
           /\ scn.entries[i].filename \in DOMAIN dir
           /\ dir[scn.entries[i].filename].bytes = ArchivePayload(scn, i)
           /\ Len(dir[scn.entries[i].filename].bytes) = scn.entries[i].size

=============================================================================
